---- MODULE Spec2Model ----
(***************************************************************************)
(* Magic-AI: the remote-tool (MCP) client manager of src/mcp_client.py,    *)
(* the agent module of src/first_agent/agent.py and the HTTP server of     *)
(* src/main.py.  The three files share no state (none imports another), so *)
(* a behaviour exercises one of them, chosen in Init by `unit`; the tool    *)
(* function of main.py, which touches no server state, is a unit of its    *)
(* own ("main_tool").                                                      *)
(*                                                                         *)
(* The MCP client library, the agent framework's session / memory services *)
(* and the runner are not part of the repository: each call into them is   *)
(* an environment step whose outcome (a value, or an exception) is drawn   *)
(* with \E from the outcomes the call can produce.                         *)
(***************************************************************************)
EXTENDS Integers, Sequences, FiniteSets, TLC

(***************************************************************************)
(* Bounds of the model.                                                    *)
(***************************************************************************)
MaxLen   == 2   \* longest connection string, in tokens
MaxTools == 1   \* longest tool list a server returns
MaxInit  == 2   \* initialize calls made on one manager

(***************************************************************************)
(* Connection strings are sequences of tokens: the three prefixes the code *)
(* tests for, and "p" for any other text.                                  *)
(***************************************************************************)
STDIO == "stdio://"
HTTP  == "http://"
HTTPS == "https://"
Tokens == {STDIO, HTTP, HTTPS, "p"}

ConnStrings == UNION {[1..n -> Tokens] : n \in 0..MaxLen}

\* The paths that exist (os.path.exists): "p", and "http://p", which POSIX
\* reads as the relative path http:/p.  Every other string names no file.
ExistingPaths == {<<"p">>, <<HTTP, "p">>}

ToolNames == {"t1", "t2"}
ToolLists == UNION {[1..n -> ToolNames] : n \in 0..MaxTools}

None == "None"
NoSession == <<>>

\* os.getenv: None when the variable is not set.  A string-valued variable
\* that holds token sequences is Unset or <<value>>.
Unset == <<>>
ApiKeyValues == {None, "", "key"}
RagValues == {Unset} \cup {<<c>> : c \in ConnStrings}
Cities == {"Paris", "Tokyo"}

APP_NAME == "first_agent"
USER_ID  == "default_user"

VARIABLES
  unit,            \* which code runs: "mcp_client", "agent", "main" or "main_tool"
  fs,              \* the paths that exist (os.path.exists)
  session,         \* MCPClientManager.session: NoSession (None), or <<c>>, the session
                   \* over connection conns[c]
  tools,           \* MCPClientManager.tools: the wrappers, each the tool name it closes over
  exit_stack,      \* MCPClientManager.exit_stack: the contexts entered, oldest first
  transport_type,  \* MCPClientManager.transport_type
  conns,           \* every transport connection the manager has opened: [transport, open]
  nInit,           \* initialize calls made so far (bounded by MaxInit)
  ret,             \* what the last call did: returned a value or raised
  \* src/first_agent/agent.py, the module's globals
  pc,              \* how far the module's top-level code has run
  api_key,         \* api_key (line 21)
  rag,             \* RAG_MCP_CONNECTION_STRING (line 29): Unset, or <<string>>
  mcp_session,     \* mcp_session (line 32)
  mcp_tools,       \* mcp_tools (line 33)
  agent_conns,     \* the transport connections entered on exit_stack (line 34)
  all_tools,       \* all_tools (line 118)
  root_agent,      \* whether root_agent has been constructed (line 120)
  \* src/main.py
  sessions,        \* session_service: the (user_id, session_id) of the sessions it holds
  memory,          \* memory_service: the sessions added to long-term memory
  resp             \* the HTTP response to the last request

mgrVars   == <<fs, session, tools, exit_stack, transport_type, conns, nInit>>
agentVars == <<pc, api_key, rag, mcp_session, mcp_tools, agent_conns, all_tools, root_agent>>

httpVars  == <<sessions, memory, resp>>

vars == <<unit, mgrVars, agentVars, httpVars, ret>>

(***************************************************************************)
(* str.startswith on token sequences.                                      *)
(***************************************************************************)
startswith(s, prefix) == Len(s) >= 1 /\ s[1] = prefix

\* The first token of a string, "" for the empty one.
FirstToken(s) == IF s = <<>> THEN "" ELSE s[1]

\* os.path.exists
exists(path) == path \in fs

(***************************************************************************)
(* The result of a call, in one shape for every operation.                 *)
(*   kind     "return" or "raise": whether an exception reached the caller *)
(*   exc      the exception that occurred in the call ("none" if none did) *)
(*   status   the payload's 'status' key ("none" when there is no payload) *)
(*   tool     the payload's 'tool' key                                     *)
(*   head     the first token of the connection string the call was given  *)
(*            ("" for the empty string): what str.startswith looks at      *)
(*   existed  whether that connection string named an existing path        *)
(*   city     the city get_current_time was given, and answers with        *)
(*   selected the _initialize_* method the call dispatched to              *)
(*   opened   whether the call opened a transport connection               *)
(*   listed   the tool names the server listed in this call                *)
(***************************************************************************)
NoRet ==
  [op |-> "none", kind |-> "return", exc |-> "none", status |-> "none",
   tool |-> "none", head |-> "", existed |-> FALSE, city |-> "none",
   selected |-> "none", opened |-> FALSE, listed |-> <<>>]

Raise(op, e)  == [NoRet EXCEPT !.op = op, !.kind = "raise", !.exc = e]
Return(op)    == [NoRet EXCEPT !.op = op]

(***************************************************************************)
(* An HTTP response, in one shape for every endpoint.                      *)
(*   code       the status code (200, or the HTTPException's status_code)  *)
(*   failure    str(e) of the exception the handler caught ("none" if none)*)
(*   detail     the HTTPException's detail: <<prefix, str(e)>>             *)
(*   body       the 'status' key of the JSON body, where there is one      *)
(*   session_id the session id the response carries                        *)
(*   req        the session id the request carried                         *)
(*   missing    no session of that id existed when the request arrived     *)
(*   ranOnMissing  runner.run_async was called on a session that does not  *)
(*              exist                                                      *)
(***************************************************************************)
NoResp ==
  [endpoint |-> "none", code |-> 0, failure |-> "none", detail |-> <<>>,
   body |-> "none", session_id |-> "none", req |-> "none",
   missing |-> FALSE, ranOnMissing |-> FALSE]

\* raise HTTPException(status_code=code, detail=f"{prefix}{str(e)}")
HTTPException(r, code, prefix, e) ==
  [r EXCEPT !.code = code, !.failure = e, !.detail = <<prefix, e>>]

(***************************************************************************)
(* MCPClientManager.initialize, lines 38-49: the transport dispatch.       *)
(* "Stdio" and "SSE" name the method called (_initialize_stdio,            *)
(* _initialize_sse); "reject" is the ValueError of the else branch.        *)
(***************************************************************************)
\* A dispatch that tests for an existing path before the URL prefixes.
SelectTransport_PathFirst(cs) ==
  IF startswith(cs, STDIO) \/ exists(cs) THEN "Stdio"
  ELSE IF startswith(cs, HTTP) \/ startswith(cs, HTTPS) THEN "SSE"
  ELSE "reject"

SelectTransport(cs) ==
  IF startswith(cs, STDIO) THEN "Stdio"
  ELSE IF startswith(cs, HTTP) \/ startswith(cs, HTTPS) THEN "SSE"
  ELSE IF exists(cs) THEN "Stdio"
  ELSE "reject"

\* The client each method opens: stdio_client or sse_client.
ClientOf(method) == IF method = "Stdio" THEN "stdio_client" ELSE "sse_client"

(***************************************************************************)
(* How far an initialize call gets before the library raises:              *)
(*   "transport"  the transport's context manager raises on entry          *)
(*   "session"    ClientSession's context manager raises on entry          *)
(*   "handshake"  session.initialize() raises                              *)
(*   "list"       session.list_tools() raises                              *)
(*   "wrap"       _create_tool_wrapper raises on the k-th listed tool      *)
(*                (_parse_input_schema on a schema it cannot read)         *)
(*   "ok"         nothing raises                                           *)
(***************************************************************************)
Stages == {"transport", "session", "handshake", "list", "wrap", "ok"}

\* _create_tool_wrapper: the wrapper is named after the tool (__name__, line
\* 136) and calls tool_info.name (line 106); the model keeps that name.
_create_tool_wrapper(tool) == tool

\* Lines 58-60: one wrapper appended per listed tool, in order.
RegisterTools(old, listed) ==
  old \o [i \in 1..Len(listed) |-> _create_tool_wrapper(listed[i])]

Init ==
  /\ unit \in {"mcp_client", "agent", "main", "main_tool"}
  /\ fs = ExistingPaths
  /\ session = NoSession
  /\ tools = <<>>
  /\ exit_stack = <<>>
  /\ transport_type = None
  /\ conns = <<>>
  /\ nInit = 0
  /\ ret = NoRet
  /\ pc = "start"
  /\ api_key = None
  /\ rag = Unset
  /\ mcp_session = NoSession
  /\ mcp_tools = <<>>
  /\ agent_conns = <<>>
  /\ all_tools = <<>>
  /\ root_agent = FALSE
  /\ sessions = {}
  /\ memory = {}
  /\ resp = NoResp

(***************************************************************************)
(* MCPClientManager.initialize(connection_string), the whole call.         *)
(* Lines 33-34 raise before the try; lines 45-49 raise inside it and line  *)
(* 66 re-raises; _initialize_stdio / _initialize_sse set transport_type,   *)
(* then enter the transport and the session on exit_stack; lines 52-60     *)
(* initialize the session, list the tools and append one wrapper each.     *)
(* Every exception raised inside the try is re-raised by line 66.          *)
(***************************************************************************)
StageExc(stage) ==
  CASE stage = "transport" -> "ConnectError"
    [] stage = "session"   -> "SessionError"
    [] stage = "handshake" -> "HandshakeError"
    [] stage = "list"      -> "ListError"
    [] stage = "wrap"      -> "SchemaError"
    [] OTHER               -> "none"

\* An initialize that resets the manager before it rejects a string.
initialize_ResetOnReject(cs, stage, listed, k) ==
  LET m          == SelectTransport(cs)
      rejected   == cs = <<>> \/ m = "reject"
      c          == Len(conns) + 1
      opens      == ~rejected /\ stage # "transport"
      hasSession == opens /\ stage # "session"
      answered   == hasSession /\ stage \in {"wrap", "ok"}
      registered == IF ~answered THEN <<>>
                    ELSE IF stage = "wrap" THEN SubSeq(listed, 1, k - 1)
                    ELSE listed
  IN
  /\ unit = "mcp_client"
  /\ nInit < MaxInit
  /\ nInit' = nInit + 1
  /\ transport_type' = IF rejected THEN None ELSE m
  /\ conns' = IF opens
              THEN Append(conns, [transport |-> ClientOf(m), open |-> TRUE])
              ELSE conns
  /\ exit_stack' = IF hasSession
                   THEN exit_stack \o <<[ctx |-> "transport", conn |-> c],
                                        [ctx |-> "session", conn |-> c]>>
                   ELSE IF opens
                   THEN Append(exit_stack, [ctx |-> "transport", conn |-> c])
                   ELSE exit_stack
  /\ session' = IF rejected THEN NoSession ELSE IF hasSession THEN <<c>> ELSE session
  /\ tools' = IF rejected THEN <<>> ELSE RegisterTools(tools, registered)
  /\ ret' = IF rejected
            THEN [Raise("initialize", "ValueError") EXCEPT
                    !.head = FirstToken(cs), !.existed = exists(cs)]
            ELSE [NoRet EXCEPT !.op = "initialize",
                    !.head = FirstToken(cs), !.existed = exists(cs),
                    !.selected = m,
                    !.opened = opens,
                    !.listed = IF answered THEN listed ELSE <<>>,
                    !.kind = IF stage = "ok" THEN "return" ELSE "raise",
                    !.exc = StageExc(stage)]
  /\ UNCHANGED <<unit, fs, agentVars, httpVars>>

initialize(cs, stage, listed, k) ==
  LET m          == SelectTransport(cs)
      rejected   == cs = <<>> \/ m = "reject"
      c          == Len(conns) + 1
      opens      == ~rejected /\ stage # "transport"
      hasSession == opens /\ stage # "session"
      answered   == hasSession /\ stage \in {"wrap", "ok"}
      registered == IF ~answered THEN <<>>
                    ELSE IF stage = "wrap" THEN SubSeq(listed, 1, k - 1)
                    ELSE listed
  IN
  /\ unit = "mcp_client"
  /\ nInit < MaxInit
  /\ nInit' = nInit + 1
  /\ transport_type' = IF rejected THEN transport_type ELSE m
  /\ conns' = IF opens
              THEN Append(conns, [transport |-> ClientOf(m), open |-> TRUE])
              ELSE conns
  /\ exit_stack' = IF hasSession
                   THEN exit_stack \o <<[ctx |-> "transport", conn |-> c],
                                        [ctx |-> "session", conn |-> c]>>
                   ELSE IF opens
                   THEN Append(exit_stack, [ctx |-> "transport", conn |-> c])
                   ELSE exit_stack
  /\ session' = IF hasSession THEN <<c>> ELSE session
  /\ tools' = RegisterTools(tools, registered)
  /\ ret' = IF rejected
            THEN [Raise("initialize", "ValueError") EXCEPT
                    !.head = FirstToken(cs), !.existed = exists(cs)]
            ELSE [NoRet EXCEPT !.op = "initialize",
                    !.head = FirstToken(cs), !.existed = exists(cs),
                    !.selected = m,
                    !.opened = opens,
                    !.listed = IF answered THEN listed ELSE <<>>,
                    !.kind = IF stage = "ok" THEN "return" ELSE "raise",
                    !.exc = StageExc(stage)]
  /\ UNCHANGED <<unit, fs, agentVars, httpVars>>

(***************************************************************************)
(* MCPClientManager.cleanup: exit_stack.aclose() exits every context that  *)
(* was entered, newest first, and empties the stack; an exception raised   *)
(* by an exit is re-raised once all of them have run.                      *)
(***************************************************************************)
OnStack(c) == \E i \in 1..Len(exit_stack) : exit_stack[i].conn = c

aclose(cn) ==
  [c \in 1..Len(cn) |-> IF OnStack(c) THEN [cn[c] EXCEPT !.open = FALSE] ELSE cn[c]]

cleanup(raises) ==
  /\ unit = "mcp_client"
  /\ conns' = aclose(conns)
  /\ exit_stack' = <<>>
  /\ ret' = IF raises THEN Raise("cleanup", "ExitError") ELSE Return("cleanup")
  /\ UNCHANGED <<unit, fs, session, tools, transport_type, nInit, agentVars, httpVars>>

(***************************************************************************)
(* session.call_tool as the wrapper sees it.  With self.session unset the  *)
(* attribute lookup raises; on a connection that cleanup has closed the    *)
(* library raises; on an open one the server answers (a content list, a    *)
(* single content value, a result without content) or the call raises.     *)
(***************************************************************************)
CallOutcomes == {"content_list", "content_value", "no_content", "raise"}

call_tool(sess, cn, out) ==
  IF sess = NoSession THEN "AttributeError"
  ELSE IF ~cn[sess[1]].open THEN "ClosedResourceError"
  ELSE IF out = "raise" THEN "ToolError"
  ELSE out

CallFailed(r) == r \in {"AttributeError", "ClosedResourceError", "ToolError"}

(***************************************************************************)
(* mcp_tool, the wrapper _create_tool_wrapper returns (lines 102-133):     *)
(* the call and the reading of its result sit inside try / except          *)
(* Exception, which turns every exception into an 'error' payload.         *)
(***************************************************************************)
\* A wrapper without the try / except: the exception reaches the caller.
mcp_tool_NoCatch(tool, r) ==
  IF CallFailed(r)
  THEN [NoRet EXCEPT !.op = "mcp_tool", !.kind = "raise", !.tool = tool, !.exc = r]
  ELSE [NoRet EXCEPT !.op = "mcp_tool", !.status = "success", !.tool = tool]

mcp_tool(tool, r) ==
  IF CallFailed(r)
  THEN [NoRet EXCEPT !.op = "mcp_tool", !.status = "error", !.tool = tool, !.exc = r]
  ELSE [NoRet EXCEPT !.op = "mcp_tool", !.status = "success", !.tool = tool]

\* A wrapper registered by initialize is called.
CallRegisteredTool ==
  \E i \in 1..Len(tools), out \in CallOutcomes :
    /\ unit = "mcp_client"
    /\ ret' = mcp_tool(tools[i], call_tool(session, conns, out))
    /\ UNCHANGED <<unit, mgrVars, agentVars, httpVars>>

\* A wrapper built by calling _create_tool_wrapper directly is called: the
\* method reads no manager state, so this is possible before any initialize.
CallFreshWrapper ==
  \E t \in ToolNames, out \in CallOutcomes :
    /\ unit = "mcp_client"
    /\ ret' = mcp_tool(_create_tool_wrapper(t), call_tool(session, conns, out))
    /\ UNCHANGED <<unit, mgrVars, agentVars, httpVars>>

\* get_tools and get_tool_info (lines 169-182).
get_tools == tools

get_tool_info ==
  [i \in 1..Len(tools) |-> [name |-> tools[i], transport |-> transport_type]]

(***************************************************************************)
(* initialize looks at its connection string through str.startswith (the   *)
(* first token), truth (emptiness) and os.path.exists only.  ObservedAs is *)
(* what it can see of a string; the calls tried are one string for each    *)
(* distinct observation among ConnStrings.                                 *)
(***************************************************************************)
ObservedAs(cs) == <<FirstToken(cs), cs \in ExistingPaths>>

Representatives ==
  {CHOOSE c \in ConnStrings : ObservedAs(c) = o : o \in {ObservedAs(c) : c \in ConnStrings}}

Initialize ==
  \E cs \in Representatives, stage \in Stages, listed \in ToolLists, k \in 1..MaxTools :
    /\ stage = "wrap" => k <= Len(listed)
    /\ stage # "wrap" => k = 1
    /\ stage \notin {"wrap", "ok"} => listed = <<>>
    /\ initialize(cs, stage, listed, k)

(***************************************************************************)
(* src/first_agent/agent.py.  The module's top-level code runs once, at    *)
(* import, in three steps.                                                 *)
(***************************************************************************)
\* A check that tests for None only.
KeyMissing_NoneOnly(k) == k = None

\* Python truth of an os.getenv result: None and "" are false.
KeyMissing(k) == k = None \/ k = ""
RagMissing(r) == r = Unset \/ r[1] = <<>>

\* Lines 17-29: the API key is read and checked, then the connection string
\* is read.  A missing key raises ValueError and the import stops there.
LoadEnvironment ==
  \E k \in ApiKeyValues, r \in RagValues :
    /\ unit = "agent"
    /\ pc = "start"
    /\ api_key' = k
    /\ IF KeyMissing(k)
       THEN /\ pc' = "failed"
            /\ ret' = Raise("import", "ValueError")
            /\ UNCHANGED rag
       ELSE /\ pc' = "configured"
            /\ ret' = Return("load_environment")
            /\ rag' = r
    /\ UNCHANGED <<unit, mgrVars, httpVars, mcp_session, mcp_tools, agent_conns, all_tools, root_agent>>

\* create_mcp_tool_wrapper (lines 76-98): named after the tool, calls it by name.
create_mcp_tool_wrapper(tool) == tool

(***************************************************************************)
(* initialize_mcp_client (lines 37-73), called by lines 109-115, which     *)
(* bind its result to mcp_tools.  Without a connection string it returns   *)
(* [] at once.  Otherwise it enters sse_client and ClientSession on        *)
(* exit_stack, initializes the session, lists the tools and appends one    *)
(* wrapper each; any exception is caught (line 71) and [] is returned.     *)
(***************************************************************************)
AgentStages == Stages \ {"wrap"}

\* An initialize_mcp_client without the try / except of lines 45 and 71.
initialize_mcp_client_NoCatch(stage, listed) ==
  LET skipped == RagMissing(rag)
      opens   == ~skipped /\ stage # "transport"
      failed  == ~skipped /\ stage # "ok"
  IN
  /\ agent_conns' = IF opens
                    THEN Append(agent_conns, [transport |-> "sse_client", open |-> TRUE])
                    ELSE agent_conns
  /\ mcp_session' = IF opens /\ stage # "session" THEN <<Len(agent_conns) + 1>>
                    ELSE mcp_session
  /\ mcp_tools' = IF failed \/ skipped THEN <<>>
                  ELSE mcp_tools \o [i \in 1..Len(listed) |-> listed[i]]
  /\ ret' = [NoRet EXCEPT !.op = "initialize_mcp_client",
               !.kind = IF failed THEN "raise" ELSE "return",
               !.opened = opens,
               !.listed = IF failed \/ skipped THEN <<>> ELSE listed,
               !.exc = IF skipped THEN "none" ELSE StageExc(stage)]

initialize_mcp_client(stage, listed) ==
  LET skipped    == RagMissing(rag)
      opens      == ~skipped /\ stage # "transport"
      hasSession == opens /\ stage # "session"
      done       == ~skipped /\ stage = "ok"
  IN
  /\ agent_conns' = IF opens
                    THEN Append(agent_conns, [transport |-> "sse_client", open |-> TRUE])
                    ELSE agent_conns
  /\ mcp_session' = IF hasSession THEN <<Len(agent_conns) + 1>> ELSE mcp_session
  /\ mcp_tools' = IF done
                  THEN mcp_tools \o [i \in 1..Len(listed) |-> create_mcp_tool_wrapper(listed[i])]
                  ELSE <<>>
  /\ ret' = [NoRet EXCEPT !.op = "initialize_mcp_client",
               !.head = IF skipped THEN "" ELSE FirstToken(rag[1]),
               !.selected = IF skipped THEN "none" ELSE "SSE",
               !.opened = opens,
               !.listed = IF done THEN listed ELSE <<>>,
               !.exc = IF skipped THEN "none" ELSE StageExc(stage)]

InitializeMcpClient ==
  \E stage \in AgentStages, listed \in ToolLists :
    /\ unit = "agent"
    /\ pc = "configured"
    /\ stage # "ok" => listed = <<>>
    /\ RagMissing(rag) => stage = "ok" /\ listed = <<>>
    /\ initialize_mcp_client(stage, listed)
    /\ pc' = "initialized"
    /\ UNCHANGED <<unit, mgrVars, httpVars, api_key, rag, all_tools, root_agent>>

\* Lines 118-130: the tool list is put together and the agent constructed.
BuildAgent ==
  /\ unit = "agent"
  /\ pc = "initialized"
  /\ all_tools' = <<"get_current_time">> \o mcp_tools
  /\ root_agent' = TRUE
  /\ pc' = "loaded"
  /\ ret' = Return("build_agent")
  /\ UNCHANGED <<unit, mgrVars, httpVars, api_key, rag, mcp_session, mcp_tools, agent_conns>>

(***************************************************************************)
(* mcp_tool_wrapper (lines 78-92): the call and the read of result.content *)
(* sit inside try / except Exception.  A result that has no content        *)
(* attribute raises AttributeError there, which is caught like the rest.   *)
(***************************************************************************)
mcp_tool_wrapper(tool, r) ==
  IF CallFailed(r)
  THEN [NoRet EXCEPT !.op = "mcp_tool_wrapper", !.status = "error", !.tool = tool, !.exc = r]
  ELSE IF r = "no_content"
  THEN [NoRet EXCEPT !.op = "mcp_tool_wrapper", !.status = "error", !.tool = tool,
                     !.exc = "AttributeError"]
  ELSE [NoRet EXCEPT !.op = "mcp_tool_wrapper", !.status = "success", !.tool = tool]

CallAgentTool ==
  \E i \in 1..Len(mcp_tools), out \in CallOutcomes :
    /\ unit = "agent"
    /\ pc = "loaded"
    /\ ret' = mcp_tool_wrapper(mcp_tools[i], call_tool(mcp_session, agent_conns, out))
    /\ UNCHANGED <<unit, mgrVars, agentVars, httpVars>>

\* cleanup_mcp_client (lines 101-104).
CleanupMcpClient ==
  \E raises \in BOOLEAN :
    /\ unit = "agent"
    /\ pc = "loaded"
    /\ agent_conns' = [c \in 1..Len(agent_conns) |-> [agent_conns[c] EXCEPT !.open = FALSE]]
    /\ ret' = IF raises THEN Raise("cleanup_mcp_client", "ExitError")
              ELSE Return("cleanup_mcp_client")
    /\ UNCHANGED <<unit, mgrVars, httpVars, pc, api_key, rag, mcp_session, mcp_tools, all_tools, root_agent>>

\* get_current_time (agent.py lines 12-14, main.py lines 28-30).
get_current_time(city) ==
  [NoRet EXCEPT !.op = "get_current_time", !.status = "success",
                !.tool = "get_current_time", !.city = city]

GetCurrentTime ==
  \E city \in Cities :
    /\ unit = "agent" /\ pc = "loaded"
    /\ ret' = get_current_time(city)
    /\ UNCHANGED <<unit, mgrVars, agentVars, httpVars>>

(***************************************************************************)
(* src/main.py: the HTTP handlers.  session_service, memory_service and    *)
(* runner belong to the agent framework.  session_service.get_session      *)
(* returns the session, returns None when there is none (its declared      *)
(* result is Optional[Session]), or raises; every other call returns or    *)
(* raises.                                                                 *)
(***************************************************************************)
Users  == {USER_ID, "u2"}
GenIds == {"session_g"}                 \* f"session_{uuid.uuid4().hex[:8]}"
SessionIds == {"s1"} \cup GenIds
ReqSessionIds == {None, ""} \cup SessionIds   \* ChatRequest.session_id

\* A health check that reports on the memory service.
health_check_Degraded ==
  [NoResp EXCEPT !.endpoint = "health", !.code = 200,
                 !.body = IF memory = {} THEN "healthy" ELSE "degraded"]

\* GET /health (lines 84-86)
health_check == [NoResp EXCEPT !.endpoint = "health", !.code = 200, !.body = "healthy"]

Health ==
  /\ unit = "main"
  /\ resp' = health_check
  /\ UNCHANGED <<unit, mgrVars, agentVars, sessions, memory, ret>>

\* session_service.get_session: "raise", or what it returns.
GetOutcomes == {"value", "raise"}
get_session(key, out) ==
  IF out = "raise" THEN "raise"
  ELSE IF key \in sessions THEN "session" ELSE "None"

\* session_service.create_session
create_session(key) == sessions \cup {key}

(***************************************************************************)
(* POST /chat (lines 98-150).  Line 108 takes the request's session id or  *)
(* generates one; lines 113-125 create the session only when get_session   *)
(* raises; lines 135-147 run the agent and answer; line 149 turns every    *)
(* exception into a 500.  runner.run_async raises when the session does    *)
(* not exist; the events it adds to an existing session are the            *)
(* framework's and are not modelled.                                       *)
(***************************************************************************)
RunOutcomes == {"text", "empty", "raise"}

chat(req, user, gen, getOut, createOut, runOut) ==
  LET session_id == IF req = None \/ req = "" THEN gen ELSE req
      key        == <<user, session_id>>
      base       == [NoResp EXCEPT !.endpoint = "chat", !.req = req,
                       !.missing = key \notin sessions]
      got        == get_session(key, getOut)
      creates    == got = "raise"
      createFails == creates /\ createOut = "raise"
      store1     == IF creates /\ ~createFails THEN create_session(key) ELSE sessions
      runs       == ~createFails
      noSession  == runs /\ key \notin store1
      runFails   == runs /\ (noSession \/ runOut = "raise")
  IN
  /\ sessions' = store1
  /\ resp' = IF createFails
             THEN HTTPException(base, 500, "Error processing chat: ", "create_session failed")
             ELSE IF noSession
             THEN HTTPException([base EXCEPT !.ranOnMissing = TRUE], 500,
                                "Error processing chat: ", "Session not found")
             ELSE IF runFails
             THEN HTTPException(base, 500, "Error processing chat: ", "runner failed")
             ELSE [base EXCEPT !.code = 200, !.session_id = session_id]

Chat ==
  \E req \in ReqSessionIds, user \in Users, gen \in GenIds,
     getOut \in GetOutcomes, createOut \in {"ok", "raise"}, runOut \in RunOutcomes :
    /\ unit = "main"
    /\ getOut = "value" => createOut = "ok"
    /\ chat(req, user, gen, getOut, createOut, runOut)
    /\ UNCHANGED <<unit, mgrVars, agentVars, memory, ret>>

(***************************************************************************)
(* POST /sessions/{id}/save-to-memory (lines 152-174).  The session that   *)
(* get_session returned is handed to memory_service.add_session_to_memory, *)
(* which reads the session's fields: on None that raises AttributeError.   *)
(***************************************************************************)
save_session_to_memory(session_id, user, getOut, addOut) ==
  LET key  == <<user, session_id>>
      base == [NoResp EXCEPT !.endpoint = "save", !.req = session_id,
                 !.missing = key \notin sessions]
      got  == get_session(key, getOut)
  IN
  IF got = "raise"
  THEN /\ resp' = HTTPException(base, 500, "Error saving to memory: ", "get_session failed")
       /\ UNCHANGED memory
  ELSE IF got = "None"
  THEN /\ resp' = HTTPException(base, 500, "Error saving to memory: ",
                                "'NoneType' object has no attribute")
       /\ UNCHANGED memory
  ELSE IF addOut = "raise"
  THEN /\ resp' = HTTPException(base, 500, "Error saving to memory: ", "memory failed")
       /\ UNCHANGED memory
  ELSE /\ resp' = [base EXCEPT !.code = 200, !.body = "success"]
       /\ memory' = memory \cup {key}

SaveSessionToMemory ==
  \E session_id \in SessionIds, user \in Users,
     getOut \in GetOutcomes, addOut \in {"ok", "raise"} :
    /\ unit = "main"
    /\ save_session_to_memory(session_id, user, getOut, addOut)
    /\ UNCHANGED <<unit, mgrVars, agentVars, sessions, ret>>

(***************************************************************************)
(* GET /sessions/{id} (lines 176-193).  The SessionInfo is built from the  *)
(* fields of what get_session returned; reading them raises AttributeError *)
(* on None, and may raise on a session (readOut).                          *)
(***************************************************************************)
\* A handler that answers None with an empty SessionInfo.
get_session_info_NoneOk(session_id, user, getOut, readOut) ==
  LET key  == <<user, session_id>>
      base == [NoResp EXCEPT !.endpoint = "get", !.req = session_id,
                 !.missing = key \notin sessions]
  IN
  IF getOut = "raise" \/ readOut = "raise"
  THEN HTTPException(base, 404, "Session not found: ", "get_session failed")
  ELSE [base EXCEPT !.code = 200, !.session_id = session_id]

get_session_info(session_id, user, getOut, readOut) ==
  LET key  == <<user, session_id>>
      base == [NoResp EXCEPT !.endpoint = "get", !.req = session_id,
                 !.missing = key \notin sessions]
      got  == get_session(key, getOut)
  IN
  IF got = "raise"
  THEN HTTPException(base, 404, "Session not found: ", "get_session failed")
  ELSE IF got = "None"
  THEN HTTPException(base, 404, "Session not found: ", "'NoneType' object has no attribute")
  ELSE IF readOut = "raise"
  THEN HTTPException(base, 404, "Session not found: ", "read failed")
  ELSE [base EXCEPT !.code = 200, !.session_id = session_id]

GetSessionInfo ==
  \E session_id \in SessionIds, user \in Users,
     getOut \in GetOutcomes, readOut \in {"ok", "raise"} :
    /\ unit = "main"
    /\ resp' = get_session_info(session_id, user, getOut, readOut)
    /\ UNCHANGED <<unit, mgrVars, agentVars, sessions, memory, ret>>

\* POST /memory/search (lines 195-221).
search_memory(user, searchOut) ==
  LET base == [NoResp EXCEPT !.endpoint = "search"] IN
  IF searchOut = "raise"
  THEN HTTPException(base, 500, "Error searching memory: ", "search failed")
  ELSE [base EXCEPT !.code = 200]

SearchMemory ==
  \E user \in Users, searchOut \in {"ok", "raise"} :
    /\ unit = "main"
    /\ resp' = search_memory(user, searchOut)
    /\ UNCHANGED <<unit, mgrVars, agentVars, sessions, memory, ret>>

\* get_current_time of main.py (lines 28-30), a tool of the server's agent.
\* It reads and writes nothing of the server, so it is exercised on its own.
ServerGetCurrentTime ==
  \E city \in Cities :
    /\ unit = "main_tool"
    /\ ret' = get_current_time(city)
    /\ UNCHANGED <<unit, mgrVars, agentVars, httpVars>>

Cleanup == \E raises \in BOOLEAN : cleanup(raises)

Next ==
  \/ Initialize
  \/ Cleanup
  \/ CallRegisteredTool
  \/ CallFreshWrapper
  \/ LoadEnvironment
  \/ InitializeMcpClient
  \/ BuildAgent
  \/ CallAgentTool
  \/ CleanupMcpClient
  \/ GetCurrentTime
  \/ Health
  \/ Chat
  \/ SaveSessionToMemory
  \/ GetSessionInfo
  \/ SearchMemory
  \/ ServerGetCurrentTime

Spec == Init /\ [][Next]_vars
(***************************************************************************)
(* Properties.                                                             *)
(***************************************************************************)
\* The last call was MCPClientManager.initialize with a non-empty string.
Initialized == ret.op = "initialize" /\ ret.head # ""

\* What the connection string of that call was.
HasStdioPrefix == ret.head = "stdio://"
HasUrlPrefix   == ret.head \in {"http://", "https://"}
WasPath        == ret.existed

\* The call dispatched to method m: transport_type names it, and a connection
\* the call opened was opened with m's client.
Picked(m) ==
  /\ ret.selected = m
  /\ transport_type = m
  /\ ret.opened => conns[Len(conns)].transport = ClientOf(m)

Rejected ==
  /\ ret.kind = "raise" /\ ret.exc = "ValueError"
  /\ ret.selected = "none" /\ ~ret.opened

\* C1 as stated: for every non-empty connection string, initialize picks the
\* process (stdio) transport when the string starts with stdio:// or is an
\* existing path, the streaming transport when it starts with http:// or
\* https://, and rejects every other string with ValueError, selecting nothing.
C1_Original ==
  Initialized =>
    /\ (HasStdioPrefix \/ WasPath) => Picked("Stdio")
    /\ HasUrlPrefix => Picked("SSE")
    /\ ~(HasStdioPrefix \/ WasPath \/ HasUrlPrefix) => Rejected

\* C1 amended: an existing path selects the process transport only when it
\* does not start with http:// or https://; a string with one of those
\* prefixes selects the streaming (SSE) transport whether or not it names an
\* existing path.
C1_Dispatch ==
  Initialized =>
    /\ (HasStdioPrefix \/ (WasPath /\ ~HasUrlPrefix)) => Picked("Stdio")
    /\ HasUrlPrefix => Picked("SSE")
    /\ ~(HasStdioPrefix \/ WasPath \/ HasUrlPrefix) => Rejected

\* An existing path that starts with http:// was given, and SSE was opened.
C1_Witness ==
  /\ Initialized /\ WasPath /\ HasUrlPrefix
  /\ ret.selected = "SSE" /\ ret.opened

ToolOps == {"mcp_tool", "mcp_tool_wrapper", "get_current_time"}

\* C2: every call of a tool wrapper (mcp_tool, mcp_tool_wrapper,
\* get_current_time) returns a payload whose status is 'success' or 'error'
\* and never raises, whatever state the manager is in.
C2_WrapperStatus ==
  ret.op \in ToolOps => ret.kind = "return" /\ ret.status \in {"success", "error"}

\* A registered wrapper was called after cleanup closed its connection.
C2_Witness ==
  /\ ret.op = "mcp_tool" /\ ret.exc = "ClosedResourceError" /\ ret.status = "error"
  /\ tools # <<>>

\* C3 as stated: on one manager no more than one transport connection is
\* ever opened, and after cleanup returns none that it opened remains open.
C3_Claim ==
  /\ Len(conns) <= 1
  /\ (ret.op = "cleanup" /\ ret.kind = "return") =>
        \A c \in 1..Len(conns) : ~conns[c].open

ConnectionFailures == {"ConnectError", "SessionError", "HandshakeError", "ListError"}
ToolFailures == {"AttributeError", "ClosedResourceError", "ToolError"}

\* C4 as stated: any failure during tool execution or remote-tool connection
\* (opening the transport, session initialization, tool listing) becomes a
\* payload with status 'error' and never reaches the caller as an exception.
C4_Original ==
  /\ (ret.op \in {"mcp_tool", "mcp_tool_wrapper"} /\ ret.exc \in ToolFailures)
        => ret.kind = "return" /\ ret.status = "error"
  /\ (ret.op \in {"initialize", "initialize_mcp_client"} /\ ret.exc \in ConnectionFailures)
        => ret.kind = "return" /\ ret.status = "error"

\* C4 amended: a failure during tool execution becomes an 'error' payload in
\* both wrappers.  A failure during remote-tool connection becomes no payload:
\* MCPClientManager.initialize re-raises it to its caller, and
\* initialize_mcp_client catches it and returns an empty tool list.
C4_FailureHandling ==
  /\ (ret.op \in {"mcp_tool", "mcp_tool_wrapper"} /\ ret.exc \in ToolFailures)
        => ret.kind = "return" /\ ret.status = "error"
  /\ (ret.op = "initialize" /\ ret.exc \in ConnectionFailures)
        => ret.kind = "raise" /\ ret.status = "none"
  /\ (ret.op = "initialize_mcp_client" /\ ret.exc \in ConnectionFailures)
        => ret.kind = "return" /\ ret.status = "none" /\ mcp_tools = <<>>

\* The agent module's connection attempt failed while listing the tools.
C4_Witness ==
  /\ ret.op = "initialize_mcp_client" /\ ret.exc = "ListError"
  /\ agent_conns # <<>>

Handlers == {"chat", "save", "get", "search"}

\* C5: a failure in the /chat, save-to-memory, /sessions/{id} or
\* /memory/search handler becomes an HTTP error whose detail carries the
\* exception message, with status 404 for GET /sessions/{id} and 500 for the
\* other three; and a request for a session that does not exist never gets a
\* success response from GET /sessions/{id} or save-to-memory.
C5_HttpErrors ==
  resp.endpoint \in Handlers =>
    /\ resp.failure # "none" =>
          /\ resp.code = IF resp.endpoint = "get" THEN 404 ELSE 500
          /\ Len(resp.detail) = 2 /\ resp.detail[2] = resp.failure
    /\ resp.failure = "none" => resp.code = 200
    /\ (resp.endpoint \in {"get", "save"} /\ resp.missing) => resp.code # 200

\* get_session returned None for a session that does not exist.
C5_Witness ==
  /\ resp.endpoint = "get" /\ resp.missing /\ resp.code = 404
  /\ resp.failure = "'NoneType' object has no attribute"

\* C6 as stated: the response of POST /chat carries the request's session_id
\* when one is given and a generated one otherwise, and the agent never runs
\* against a session that does not exist.
C6_Claim ==
  resp.endpoint = "chat" =>
    /\ ~resp.ranOnMissing
    /\ resp.code = 200 =>
          IF resp.req \in {None, ""} THEN resp.session_id \in GenIds
          ELSE resp.session_id = resp.req

\* C7: with GOOGLE_API_KEY unset or empty the import fails before any
\* connection is attempted and before the agent is constructed; with the key
\* set and RAG_MCP_CONNECTION_STRING unset no connection is attempted and the
\* agent is constructed with get_current_time as its only tool.
C7_Startup ==
  unit = "agent" =>
    /\ (pc # "start" /\ api_key \in {None, ""}) =>
          /\ pc = "failed" /\ ret.kind = "raise"
          /\ agent_conns = <<>> /\ mcp_session = NoSession /\ ~root_agent
    /\ (pc # "start" /\ api_key \notin {None, ""}) => pc # "failed"
    /\ (ret.op = "initialize_mcp_client" /\ rag = Unset) =>
          ret.selected = "none" /\ ~ret.opened
    /\ (pc \in {"initialized", "loaded"} /\ rag = Unset) =>
          agent_conns = <<>> /\ mcp_session = NoSession /\ mcp_tools = <<>>
    /\ (pc = "loaded" /\ rag = Unset) =>
          root_agent /\ all_tools = <<"get_current_time">>
    /\ root_agent => pc = "loaded"

\* The module loaded with the key set and no connection string.
C7_Witness ==
  /\ pc = "loaded" /\ api_key = "key" /\ rag = Unset
  /\ all_tools = <<"get_current_time">>

\* The three transports the module's docstring names, by the client that
\* opens each.
Transports == {"stdio_client", "sse_client", "streamablehttp_client"}

\* C8 as stated: for each of the three transports (local process, SSE,
\* streaming HTTP) some connection string makes initialize select it, and
\* after a successful initialize transport_type names the transport opened.
C8_Claim ==
  /\ \A t \in Transports : \E cs \in ConnStrings \ {<<>>} :
        SelectTransport(cs) # "reject" /\ ClientOf(SelectTransport(cs)) = t
  /\ (ret.op = "initialize" /\ ret.kind = "return") =>
        conns[Len(conns)].transport = ClientOf(transport_type)

\* C9: GET /health returns exactly {"status": "healthy"} in every server state.
C9_Health ==
  resp.endpoint = "health" =>
    resp = [NoResp EXCEPT !.endpoint = "health", !.code = 200, !.body = "healthy"]

\* /health was asked with sessions stored and a session saved to memory.
C9_Witness ==
  resp.endpoint = "health" /\ sessions # {} /\ memory # {}

\* C10 as stated: after a successful initialize the tool list holds exactly
\* one wrapper per tool the server listed, in the listed order, and get_tools
\* and get_tool_info return one entry per listed tool with the same names,
\* also after further initialize calls on the same instance.
C10_Claim ==
  (ret.op = "initialize" /\ ret.kind = "return") =>
    /\ get_tools = ret.listed
    /\ Len(get_tool_info) = Len(ret.listed)
    /\ \A i \in 1..Len(get_tool_info) : get_tool_info[i].name = ret.listed[i]

\* The step is a call of MCPClientManager.initialize whose connection string
\* is empty, or has neither prefix and names no existing path.
RejectingCall ==
  /\ nInit' = nInit + 1
  /\ ret'.op = "initialize"
  /\ \/ ret'.head = ""
     \/ /\ ret'.head \notin {"stdio://", "http://", "https://"}
        /\ ~ret'.existed

\* C11: an initialize call that rejects its connection string raises
\* ValueError and leaves the manager as it was: session, transport_type and
\* the tool list keep their values, and no transport connection is opened
\* (conns and the exit stack are unchanged).
C11_RejectFrame ==
  [][RejectingCall =>
       /\ ret'.kind = "raise" /\ ret'.exc = "ValueError"
       /\ ~ret'.opened
       /\ UNCHANGED <<session, transport_type, tools, conns, exit_stack>>]_vars

\* A string was rejected by a manager that an earlier initialize had
\* connected and given tools.
C11_Witness ==
  /\ ret.op = "initialize" /\ ret.kind = "raise" /\ ret.exc = "ValueError"
  /\ ret.head \notin {"", "stdio://", "http://", "https://"} /\ ~ret.existed
  /\ session # NoSession /\ tools # <<>> /\ transport_type # None
  /\ conns # <<>>

====
